---- MODULE Spec2Model ----
(***************************************************************************)
(* The journal router of the Grateful Hearts backend                       *)
(* (src/routers/journal_routes.py), its authentication dependency          *)
(* (src/security/dependencies.py), the tables it writes                    *)
(* (src/models/journal.py) and the response envelope                       *)
(* (src/schemas/common.py), as a state machine.  One request is served per *)
(* step: the router picks the first registered route that matches, the     *)
(* dependencies of that route are resolved, the handler runs against the   *)
(* tables and the answer is left in resp.                                  *)
(***************************************************************************)
EXTENDS Integers, Sequences, FiniteSets, TLC

VARIABLES
    journals,    \* table journals: Seq of rows, row i has id i
    tags,        \* table tags: Seq of names, tag i has id i
    links,       \* table journal_tag_link: set of <<journal_id, tag_id>>
    reactions,   \* table journal_reactions: Seq of rows
    favorites,   \* table journal_favorites: Seq of rows
    shares,      \* table journal_shares: Seq of rows
    reports,     \* table journal_reports: Seq of rows
    clock,       \* datetime.utcnow(), as a counter
    nupdates,    \* number of committed update_journal requests so far
    req,         \* the request being answered: method, path and body
    resp,        \* the answer to it
    app,         \* the application: position in lifespan() and app.state
    sessions     \* create_journal requests running side by side: their Session

db == <<journals, tags, links, reactions, favorites, shares, reports, clock, nupdates>>
vars == <<journals, tags, links, reactions, favorites, shares, reports, clock, nupdates, req, resp, app, sessions>>

(* ------------------------------ bounds -------------------------------- *)
MaxJournals == 2
MaxUpdates == 1
MaxEngagement == 2
MaxTagList == 2
MaxSkip == 1
MaxLimit == 2

(* --------------------------- optional values -------------------------- *)
\* Optional[T]: None is the empty set, a value v is {v}.
None == {}
Some(v) == {v}

(* ------------------------------- users -------------------------------- *)
\* The rows of table users (written by the user router only).
Users == {1, 2}

(* --------------------------- authentication --------------------------- *)
\* NoHeader: the request carries no Authorization header.
NoHeader == [scheme |-> "", credentials |-> ""]

Credentials ==
    { NoHeader,
      [scheme |-> "Basic",  credentials |-> "tok_1"],
      [scheme |-> "Basic",  credentials |-> "garbage"],
      [scheme |-> "Bearer", credentials |-> "garbage"],
      [scheme |-> "Bearer", credentials |-> "tok_nosub"],
      [scheme |-> "Bearer", credentials |-> "tok_abc"],
      [scheme |-> "bearer", credentials |-> "tok_9"],
      [scheme |-> "Bearer", credentials |-> "tok_1"],
      [scheme |-> "Bearer", credentials |-> "tok_2"] }

\* str.lower() on the schemes above.
Lower(s) ==
    CASE s = "Bearer" -> "bearer"
      [] s = "Basic"  -> "basic"
      [] OTHER        -> s

\* The decimal strings "1" .. "9", by value.
DecimalStrings == <<"1", "2", "3", "4", "5", "6", "7", "8", "9">>

\* int(s): the value of a decimal string; IsInt(s) is false where int(s)
\* raises a ValueError.
IsInt(s) == \E i \in DOMAIN DecimalStrings : DecimalStrings[i] = s
IntOf(s) == CHOOSE i \in DOMAIN DecimalStrings : DecimalStrings[i] = s

\* decode_access_token: the claim set of a token, or a decode failure.
decode_access_token(token) ==
    CASE token = "tok_1"     -> [ok |-> TRUE,  claims |-> [sub |-> Some("1")]]
      [] token = "tok_2"     -> [ok |-> TRUE,  claims |-> [sub |-> Some("2")]]
      [] token = "tok_9"     -> [ok |-> TRUE,  claims |-> [sub |-> Some("9")]]
      [] token = "tok_abc"   -> [ok |-> TRUE,  claims |-> [sub |-> Some("abc")]]
      [] token = "tok_nosub" -> [ok |-> TRUE,  claims |-> [sub |-> None]]
      [] OTHER               -> [ok |-> FALSE, claims |-> [sub |-> None]]

\* In an answer: the credentials were accepted, or the route reads none.
NoCred == [scheme |-> "-", credentials |-> "-"]

\* What an HTTPException carries.
Reject(code, detail) == [ok |-> FALSE, status |-> code, detail |-> detail, user |-> 0]
Accept(user) == [ok |-> TRUE, status |-> 200, detail |-> "", user |-> user]

\* The status with which HTTPBearer(auto_error=True) turns a request away.
\* It is 403 in the FastAPI releases before 0.122 and 401 from then on; the
\* repository pins no release.
BearerRejectStatus == {401, 403}

\* bearer_scheme = HTTPBearer(): hands the header's scheme and credentials to
\* get_current_user, or turns the request away when the header is missing or
\* its scheme is not "bearer".
bearer_scheme(cred, st) ==
    IF cred.scheme = "" \/ cred.credentials = ""
    THEN Reject(st, "Not authenticated")
    ELSE IF Lower(cred.scheme) # "bearer"
    THEN Reject(st, "Invalid authentication credentials")
    ELSE Accept(0)

\* get_current_user, given credentials that bearer_scheme let through.
get_current_user(cred) ==
    IF Lower(cred.scheme) # "bearer"
    THEN Reject(401, "Invalid authentication scheme")
    ELSE LET dec == decode_access_token(cred.credentials) IN
         IF ~dec.ok THEN Reject(401, "Could not validate credentials")
         ELSE LET subject == dec.claims.sub IN
              IF subject = None \/ subject = Some("") THEN Reject(401, "Invalid token subject")
              ELSE LET s == CHOOSE x \in subject : TRUE IN
                   IF ~IsInt(s) THEN Reject(401, "Invalid token subject")
                   ELSE IF IntOf(s) \notin Users THEN Reject(401, "User not found")
                   ELSE Accept(IntOf(s))

\* Depends(get_current_user): bearer_scheme first, then get_current_user.
Authenticate(cred, st) ==
    LET b == bearer_scheme(cred, st) IN
    IF ~b.ok THEN b ELSE get_current_user(cred)

(* ------------------------------ routing ------------------------------- *)
Lit(s) == [kind |-> "lit", name |-> s]
Param(s) == [kind |-> "param", name |-> s]

\* The routes of router = APIRouter(prefix="/journals"), in the order in which
\* the decorators register them.  protected: the handler has a
\* Depends(get_current_user) parameter.
Routes ==
    << [method |-> "POST",   path |-> <<Lit("create")>>,            handler |-> "create_journal",         protected |-> TRUE],
       [method |-> "GET",    path |-> <<Lit("get-all")>>,           handler |-> "get_all_journals",       protected |-> TRUE],
       [method |-> "GET",    path |-> <<Lit("tags"), Param("tag_name")>>, handler |-> "get_journals_by_tag", protected |-> TRUE],
       [method |-> "GET",    path |-> <<Lit("get-user-journals")>>, handler |-> "get_user_journals",      protected |-> TRUE],
       [method |-> "GET",    path |-> <<Param("journal_id")>>,      handler |-> "get_journal_by_id",      protected |-> FALSE],
       [method |-> "GET",    path |-> <<Lit("user"), Param("user_id")>>, handler |-> "get_journals_by_user", protected |-> TRUE],
       [method |-> "GET",    path |-> <<Lit("my")>>,                handler |-> "get_my_journals",        protected |-> TRUE],
       [method |-> "PUT",    path |-> <<Param("journal_id")>>,      handler |-> "update_journal",         protected |-> TRUE],
       [method |-> "DELETE", path |-> <<Param("journal_id")>>,      handler |-> "delete_journal",         protected |-> TRUE],
       [method |-> "POST",   path |-> <<Lit("journal-reactions")>>, handler |-> "create_journal_reaction", protected |-> TRUE],
       [method |-> "GET",    path |-> <<Lit("journal-reactions"), Param("journal_id")>>, handler |-> "get_journal_reactions", protected |-> FALSE],
       [method |-> "POST",   path |-> <<Lit("journal-favorites")>>, handler |-> "create_journal_favorite", protected |-> TRUE],
       [method |-> "GET",    path |-> <<Lit("journal-favorites")>>, handler |-> "get_journal_favorites",  protected |-> TRUE],
       [method |-> "POST",   path |-> <<Lit("journal-shares")>>,    handler |-> "create_journal_share",   protected |-> TRUE],
       [method |-> "POST",   path |-> <<Lit("journal-reports")>>,   handler |-> "create_journal_report",  protected |-> TRUE] >>

\* A path template matches a path of the same length whose literal segments
\* are equal; a parameter segment matches any segment.
PathMatches(template, path) ==
    /\ Len(template) = Len(path)
    /\ \A i \in DOMAIN template :
          template[i].kind = "lit" => template[i].name = path[i]

\* The router serves a request with the first route whose path and method
\* both match; 0 when none does.
Dispatch(method, path) ==
    LET full == {i \in DOMAIN Routes :
                    Routes[i].method = method /\ PathMatches(Routes[i].path, path)}
    IN IF full = {} THEN 0 ELSE CHOOSE i \in full : \A k \in full : i <= k

(* ----------------------------- responses ------------------------------ *)
\* The strings pydantic reads as a bool.
BoolStrings == {"0", "1", "true", "false", "t", "f", "yes", "no", "y", "n", "on", "off"}

\* class APIResponse: status is a bool that defaults to True; keyword
\* arguments that are no field of the envelope (success, code) are ignored.
\* statusArg is None when the handler passes no status, Some(s) when it passes
\* the string s.  The result is the HTTP status of the answer: a status that
\* is no bool fails the envelope's validation inside the handler.
APIResponse(statusArg) ==
    IF statusArg = None \/ statusArg \subseteq BoolStrings THEN 200 ELSE 500

\* An answer: the handler the request was routed to, the HTTP status, the
\* error detail, whether the handler body ran, the authenticated caller (0 when
\* there is none), the credentials when they were turned away, the parameters
\* the handler was called with and the data of the envelope (a sequence of
\* projections, empty unless the status is 200).
Resp(handler, status, detail, ran, caller, cred, args, data) ==
    [handler |-> handler, status |-> status, detail |-> detail, ran |-> ran,
     caller |-> caller, cred |-> cred, args |-> args,
     data |-> IF status = 200 THEN data ELSE <<>>]

(* ------------------------------- tables ------------------------------- *)
NullValue == [kind |-> "null", v |-> ""]
StrValue(s) == [kind |-> "str", v |-> s]

RECURSIVE SeqToSet(_)
SeqToSet(s) == IF s = <<>> THEN {} ELSE {Head(s)} \cup SeqToSet(Tail(s))

Min(a, b) == IF a < b THEN a ELSE b

\* The sequences that list every element of S once.
Perms(S) ==
    {f \in [1..Cardinality(S) -> S] : \A i, k \in 1..Cardinality(S) : f[i] = f[k] => i = k}

RECURSIVE SelectSeq2(_, _)
\* [x for x in s if x in keep]
SelectSeq2(s, keep) ==
    IF s = <<>> THEN <<>>
    ELSE IF Head(s) \in keep THEN <<Head(s)>> \o SelectSeq2(Tail(s), keep)
    ELSE SelectSeq2(Tail(s), keep)

\* .offset(skip).limit(limit) on a result listed in the order rows.
Page(rows, skip, limit) ==
    SubSeq(rows, skip + 1, Min(skip + limit, Len(rows)))

\* Every row of the table, deleted or not.
AllIds == DOMAIN journals

\* .where(Journal.is_deleted == False)
LiveIds == {i \in DOMAIN journals : ~journals[i].is_deleted}

RECURSIVE InsertDesc(_, _)
\* The ids of a feed after feed.append(item); feed.sort(key=created_at,
\* reverse=True): the sort is stable, so the new item goes behind the items
\* created at the same time or later.
InsertDesc(feed, id) ==
    IF feed = <<>> THEN <<id>>
    ELSE IF journals[Head(feed)].created_at >= journals[id].created_at
         THEN <<Head(feed)>> \o InsertDesc(Tail(feed), id)
         ELSE <<id>> \o feed

RECURSIVE SortLoop(_, _)
SortLoop(feed, rest) ==
    IF rest = <<>> THEN feed ELSE SortLoop(InsertDesc(feed, Head(rest)), Tail(rest))

\* ORDER BY created_at DESC over a set of journal ids (created_at is distinct
\* from row to row: the clock advances with every insert).
OrderByCreatedDesc(ids) ==
    CHOOSE f \in Perms(ids) :
        \A i, k \in DOMAIN f : i < k => journals[f[i]].created_at >= journals[f[k]].created_at

(* ---------------------------- projections ----------------------------- *)
\* [TagResponse(id=tag.id, name=tag.name) for tag in journal.tags]
TagsOf(id) == {[id |-> l[2], name |-> tags[l[2]]] : l \in {x \in links : x[1] = id}}

\* JournalFeedResponse(...) for journal id (comment_count is left out: the
\* comments table is written by the comment router only).
JournalFeedResponse(id, share_count, is_favorite) ==
    [id |-> id, user |-> journals[id].user_id, image_url |-> journals[id].image_url,
     title |-> journals[id].title, body_snippet |-> journals[id].body_snippet,
     html_content |-> journals[id].html_content, created_at |-> journals[id].created_at,
     share_count |-> share_count, is_favorite |-> is_favorite,
     tags |-> TagsOf(id), is_private |-> journals[id].is_private]

\* A shares_map that counts the users who shared, not the share rows.
SharersMap(ids) ==
    [i \in {shares[k].journal_id : k \in {n \in DOMAIN shares : shares[n].journal_id \in ids}} |->
        Cardinality({shares[k].user_id : k \in {n \in DOMAIN shares : shares[n].journal_id = i}})]

\* shares_map: SELECT journal_id, count(id) ... WHERE journal_id IN ids GROUP BY
\* journal_id, as a dict; a journal without shares has no key.
shares_map(ids) ==
    [i \in {shares[k].journal_id : k \in {n \in DOMAIN shares : shares[n].journal_id \in ids}} |->
        Cardinality({k \in DOMAIN shares : shares[k].journal_id = i})]

\* dict.get(key, default)
DictGet(d, key, default) == IF key \in DOMAIN d THEN d[key] ELSE default

\* The journal ids among ids that anybody has a favorite row for.
AnyoneFavoriteIds(ids, caller) ==
    {favorites[k].journal_id : k \in {n \in DOMAIN favorites : favorites[n].journal_id \in ids}}

\* favorite_journal_ids: the set of journal ids among ids the caller has a
\* favorite row for.
favorite_journal_ids(ids, caller) ==
    {favorites[k].journal_id :
        k \in {n \in DOMAIN favorites :
                  favorites[n].journal_id \in ids /\ favorites[n].user_id = caller}}

\* The feed of get-all, get-user-journals, user/{id} and my for a page of
\* journal ids: the aggregates come from the two batched queries.
BatchedFeed(page, caller) ==
    LET ids == SeqToSet(page)
        sm == shares_map(ids)
        fav == favorite_journal_ids(ids, caller)
    IN [k \in DOMAIN page |->
           JournalFeedResponse(page[k], DictGet(sm, page[k], 0), page[k] \in fav)]

\* The feed of tags/{tag_name}: the aggregates are queried journal by journal.
PerJournalFeed(rows, caller) ==
    [k \in DOMAIN rows |->
        JournalFeedResponse(
            rows[k],
            Cardinality({n \in DOMAIN shares : shares[n].journal_id = rows[k]}),
            \E n \in DOMAIN favorites :
                favorites[n].journal_id = rows[k] /\ favorites[n].user_id = caller)]

\* JournalResponse: the full projection of a row.
JournalResponse(row) == row

\* The parameters a handler was called with (0 and "" for those it has not).
Args(journal_id, user_id, tag_name, skip, limit) ==
    [journal_id |-> journal_id, user_id |-> user_id, tag_name |-> tag_name,
     skip |-> skip, limit |-> limit]
NoArgs == Args(0, 0, "", 0, 0)

NoResp == Resp("", 0, "", FALSE, 0, NoCred, NoArgs, <<>>)

\* raise HTTPException(...) in a dependency: the handler body does not run.
Rejected(handler, auth, cred) ==
    Resp(handler, auth.status, auth.detail, FALSE, 0, cred, NoArgs, <<>>)

\* A path parameter declared int that is no integer: 422 before the handler.
Unprocessable(handler, caller) ==
    Resp(handler, 422, "int_parsing", FALSE, caller, NoCred, NoArgs, <<>>)

\* raise HTTPException(status_code=404, ...) in a handler.
NotFound(handler, caller, args, detail) ==
    Resp(handler, 404, detail, TRUE, caller, NoCred, args, <<>>)

\* An exception that is no HTTPException leaves the handler: the session is
\* closed without a commit and the answer is a 500.
ServerError(handler, caller, args, detail) ==
    Resp(handler, 500, detail, TRUE, caller, NoCred, args, <<>>)

\* return APIResponse(..., status=statusArg, data=data)
Envelope(handler, caller, args, statusArg, data) ==
    Resp(handler, APIResponse(statusArg),
         IF APIResponse(statusArg) = 200 THEN "" ELSE "ValidationError",
         TRUE, caller, NoCred, args, data)

(* ------------------------------ schemas ------------------------------- *)
\* BaseModel.model_dump(): the fields of the schema; what else the body holds
\* was dropped when the body was read.
ModelDump(body, fields) == [f \in fields |-> body[f]]

\* Model(**dump, key=value)
WithField(dump, extra) ==
    [f \in DOMAIN dump \cup DOMAIN extra |-> IF f \in DOMAIN extra THEN extra[f] ELSE dump[f]]

JournalUpdateFields == {"title", "body_snippet", "html_content", "is_private", "image_url"}
JournalReactionCreateFields == {"journal_id", "reaction_type"}
JournalFavoriteCreateFields == {"journal_id"}
JournalShareCreateFields == {"journal_id", "share_type"}
JournalReportCreateFields == {"journal_id", "reason"}

(* ------------------------------ handlers ------------------------------ *)
RECURSIVE ResolveTags(_, _, _)
\* The loop over journal_data.tags: each name is looked up (the lookup
\* flushes the session first, so it sees a Tag added for an earlier name) and
\* a Tag is added when there is none; journal.tags gets the tag appended.
ResolveTags(names, tagRows, tagIds) ==
    IF names = <<>> THEN [tags |-> tagRows, ids |-> tagIds]
    ELSE LET found == {i \in DOMAIN tagRows : tagRows[i] = Head(names)} IN
         IF found # {}
         THEN ResolveTags(Tail(names), tagRows,
                          Append(tagIds, CHOOSE i \in found : \A k \in found : i <= k))
         ELSE ResolveTags(Tail(names), Append(tagRows, Head(names)),
                          Append(tagIds, Len(tagRows) + 1))

\* journal_tag_link has the primary key (journal_id, tag_id): the flush
\* inserts one row per element of journal.tags and fails when two are equal.
LinkKeyViolated(tagIds) ==
    \E i, k \in DOMAIN tagIds : i # k /\ tagIds[i] = tagIds[k]

\* Journal(**journal_dict, user_id=current_user.id)
NewJournal(body, user) ==
    [id |-> Len(journals) + 1, user_id |-> user, title |-> body.title,
     body_snippet |-> body.body_snippet, html_content |-> body.html_content,
     is_private |-> body.is_private, image_url |-> body.image_url,
     is_deleted |-> FALSE, deleted_at |-> NullValue,
     created_at |-> clock, updated_at |-> clock]

create_journal(body, user) ==
    LET r == ResolveTags(body.tags, tags, <<>>)
        journal == NewJournal(body, user)
    IN IF LinkKeyViolated(r.ids)
       THEN /\ resp' = ServerError("create_journal", user, NoArgs, "IntegrityError")
            /\ UNCHANGED db
       ELSE /\ journals' = Append(journals, journal)
            /\ tags' = r.tags
            /\ links' = links \cup {<<journal.id, r.ids[i]>> : i \in DOMAIN r.ids}
            /\ clock' = clock + 1
            /\ resp' = Envelope("create_journal", user, NoArgs, None, <<JournalResponse(journal)>>)
            /\ UNCHANGED <<reactions, favorites, shares, reports, nupdates>>

\* The scan order of table journals is the DB's choice: order lists the ids
\* of the table in that order.
get_all_journals(user, skip, limit, order) ==
    LET page == Page(SelectSeq2(order, LiveIds), skip, limit)
        feed == BatchedFeed(SortLoop(<<>>, page), user)
    IN /\ resp' = Envelope("get_all_journals", user, Args(0, 0, "", skip, limit), None, feed)
       /\ UNCHANGED db

\* A tag listing that answers an unknown tag name with an empty list.
TagListingWithout404(user, tag_name, order) ==
    LET rows == SelectSeq2(order, {l[1] : l \in {x \in links : tags[x[2]] = tag_name}}) IN
    /\ UNCHANGED db
    /\ resp' = Envelope("get_journals_by_tag", user, Args(0, 0, tag_name, 0, 0), None,
                        PerJournalFeed(rows, user))

get_journals_by_tag(user, tag_name, order) ==
    LET found == {i \in DOMAIN tags : tags[i] = tag_name} IN
    /\ UNCHANGED db
    /\ IF found = {}
       THEN resp' = NotFound("get_journals_by_tag", user, Args(0, 0, tag_name, 0, 0), "Tag not found")
       ELSE LET tag == CHOOSE i \in found : \A k \in found : i <= k
                rows == SelectSeq2(order, {l[1] : l \in {x \in links : x[2] = tag}})
            IN resp' = Envelope("get_journals_by_tag", user, Args(0, 0, tag_name, 0, 0), None,
                                PerJournalFeed(rows, user))

\* The statement of get_user_journals, get_journals_by_user and get_my_journals.
UserJournalsPage(user_id, skip, limit) ==
    Page(OrderByCreatedDesc({i \in LiveIds : journals[i].user_id = user_id}), skip, limit)

get_user_journals(user, skip, limit) ==
    /\ resp' = Envelope("get_user_journals", user, Args(0, 0, "", skip, limit), None,
                        BatchedFeed(UserJournalsPage(user, skip, limit), user))
    /\ UNCHANGED db

get_journal_by_id(journal_id) ==
    /\ UNCHANGED db
    /\ IF journal_id \notin DOMAIN journals \/ journals[journal_id].is_deleted
       THEN resp' = NotFound("get_journal_by_id", 0, Args(journal_id, 0, "", 0, 0), "Journal not found")
       ELSE resp' = Envelope("get_journal_by_id", 0, Args(journal_id, 0, "", 0, 0), Some("success"),
                             <<JournalResponse(journals[journal_id])>>)

get_journals_by_user(user, user_id, skip, limit) ==
    /\ resp' = Envelope("get_journals_by_user", user, Args(0, user_id, "", skip, limit), None,
                        BatchedFeed(UserJournalsPage(user_id, skip, limit), user))
    /\ UNCHANGED db

get_my_journals(user, skip, limit) ==
    /\ resp' = Envelope("get_my_journals", user, Args(0, 0, "", skip, limit), None,
                        BatchedFeed(UserJournalsPage(user, skip, limit), user))
    /\ UNCHANGED db

\* The value of an Optional that is not None.
TheValue(opt) == CHOOSE x \in opt : TRUE

\* journal_data.model_dump(exclude_unset=True): body.set names the fields the
\* payload holds, body.val their values (None for a JSON null).
\* journals.title and journals.is_private are NOT NULL columns.
NotNullViolated(body) ==
    \/ "title" \in body.set /\ body.val.title = None
    \/ "is_private" \in body.set /\ body.val.is_private = None

\* for key, value in dump.items(): setattr(journal, key, value)
SetAttrs(row, body) ==
    [row EXCEPT
        !.title = IF "title" \in body.set THEN TheValue(body.val.title) ELSE @,
        !.body_snippet = IF "body_snippet" \in body.set THEN body.val.body_snippet ELSE @,
        !.html_content = IF "html_content" \in body.set THEN body.val.html_content ELSE @,
        !.is_private = IF "is_private" \in body.set THEN TheValue(body.val.is_private) ELSE @,
        !.image_url = IF "image_url" \in body.set THEN body.val.image_url ELSE @]

\* if not journal
Missing(journal_id, user) == journal_id \notin DOMAIN journals

\* if not journal or journal.user_id != current_user.id
NotOwned(journal_id, user) ==
    journal_id \notin DOMAIN journals \/ journals[journal_id].user_id # user

update_journal(user, journal_id, body) ==
    LET args == Args(journal_id, 0, "", 0, 0) IN
    IF NotOwned(journal_id, user)
    THEN /\ resp' = NotFound("update_journal", user, args, "Journal not found")
         /\ UNCHANGED db
    ELSE IF NotNullViolated(body)
    THEN /\ resp' = ServerError("update_journal", user, args, "IntegrityError")
         /\ UNCHANGED db
    ELSE /\ journals' = [journals EXCEPT ![journal_id] = SetAttrs(@, body)]
         /\ nupdates' = nupdates + 1
         /\ resp' = Envelope("update_journal", user, args, Some("success"),
                             <<JournalResponse(SetAttrs(journals[journal_id], body))>>)
         /\ UNCHANGED <<tags, links, reactions, favorites, shares, reports, clock>>

\* journal.is_deleted = True; journal.deleted_at = "CURRENT_TIMESTAMP"
MarkDeleted(row) ==
    [row EXCEPT !.is_deleted = TRUE, !.deleted_at = StrValue("CURRENT_TIMESTAMP")]

\* deleted_at is a datetime column and is handed a str: whether the commit
\* stores it or fails is up to the database behind the engine (accepted).
delete_journal(user, journal_id, accepted) ==
    LET args == Args(journal_id, 0, "", 0, 0) IN
    IF NotOwned(journal_id, user)
    THEN /\ resp' = NotFound("delete_journal", user, args, "Journal not found")
         /\ UNCHANGED db
    ELSE IF ~accepted
    THEN /\ resp' = ServerError("delete_journal", user, args, "StatementError")
         /\ UNCHANGED db
    ELSE /\ journals' = [journals EXCEPT ![journal_id] = MarkDeleted(@)]
         /\ resp' = Envelope("delete_journal", user, args, Some("success"), <<>>)
         /\ UNCHANGED <<tags, links, reactions, favorites, shares, reports, clock, nupdates>>

\* journal_id is a foreign key to journals.id in the four engagement tables.
ForeignKeyViolated(row) == row.journal_id \notin DOMAIN journals

\* JournalReactions(**journal_reaction_data.model_dump(), user_id=current_user.id)
\* JournalReactions(**body) with the actor read from the request body.
ReactionRowFromBody(body, user) ==
    WithField(ModelDump(body, JournalReactionCreateFields \cup {"user_id"}),
              [id |-> Len(reactions) + 1, created_at |-> clock])

ReactionRow(body, user) ==
    WithField(ModelDump(body, JournalReactionCreateFields),
              [id |-> Len(reactions) + 1, user_id |-> user, created_at |-> clock])

\* JournalFavorites(**journal_favorite_data.model_dump(), user_id=current_user.id)
FavoriteRow(body, user) ==
    WithField(ModelDump(body, JournalFavoriteCreateFields),
              [id |-> Len(favorites) + 1, user_id |-> user, created_at |-> clock])

\* JournalShares(**journal_share_data.model_dump(), user_id=current_user.id)
ShareRow(body, user) ==
    WithField(ModelDump(body, JournalShareCreateFields),
              [id |-> Len(shares) + 1, user_id |-> user, shared_at |-> clock])

\* JournalReports(**journal_report_data.model_dump(), reporter_id=current_user.id)
ReportRow(body, user) ==
    WithField(ModelDump(body, JournalReportCreateFields),
              [id |-> Len(reports) + 1, reporter_id |-> user, status |-> "pending",
               created_at |-> clock, resolved_at |-> NullValue])

create_journal_reaction(body, user) ==
    LET row == ReactionRow(body, user) IN
    IF ForeignKeyViolated(row)
    THEN /\ resp' = ServerError("create_journal_reaction", user, NoArgs, "IntegrityError")
         /\ UNCHANGED db
    ELSE /\ reactions' = Append(reactions, row)
         /\ resp' = Envelope("create_journal_reaction", user, NoArgs, Some("success"), <<row>>)
         /\ UNCHANGED <<journals, tags, links, favorites, shares, reports, clock, nupdates>>

get_journal_reactions(journal_id) ==
    /\ resp' = Envelope("get_journal_reactions", 0, Args(journal_id, 0, "", 0, 0), Some("success"),
                        SelectSeq(reactions, LAMBDA row : row.journal_id = journal_id))
    /\ UNCHANGED db

create_journal_favorite(body, user) ==
    LET row == FavoriteRow(body, user) IN
    IF ForeignKeyViolated(row)
    THEN /\ resp' = ServerError("create_journal_favorite", user, NoArgs, "IntegrityError")
         /\ UNCHANGED db
    ELSE /\ favorites' = Append(favorites, row)
         /\ resp' = Envelope("create_journal_favorite", user, NoArgs, Some("success"), <<row>>)
         /\ UNCHANGED <<journals, tags, links, reactions, shares, reports, clock, nupdates>>

get_journal_favorites(user) ==
    /\ resp' = Envelope("get_journal_favorites", user, NoArgs, Some("success"),
                        SelectSeq(favorites, LAMBDA row : row.user_id = user))
    /\ UNCHANGED db

create_journal_share(body, user) ==
    LET row == ShareRow(body, user) IN
    IF ForeignKeyViolated(row)
    THEN /\ resp' = ServerError("create_journal_share", user, NoArgs, "IntegrityError")
         /\ UNCHANGED db
    ELSE /\ shares' = Append(shares, row)
         /\ resp' = Envelope("create_journal_share", user, NoArgs, Some("success"), <<row>>)
         /\ UNCHANGED <<journals, tags, links, reactions, favorites, reports, clock, nupdates>>

create_journal_report(body, user) ==
    LET row == ReportRow(body, user) IN
    IF ForeignKeyViolated(row)
    THEN /\ resp' = ServerError("create_journal_report", user, NoArgs, "IntegrityError")
         /\ UNCHANGED db
    ELSE /\ reports' = Append(reports, row)
         /\ resp' = Envelope("create_journal_report", user, NoArgs, Some("success"), <<row>>)
         /\ UNCHANGED <<journals, tags, links, reactions, favorites, shares, clock, nupdates>>

(* ------------------------------ requests ------------------------------ *)
NoBody == [none |-> TRUE]
NoReq == [method |-> "", path |-> <<>>, body |-> NoBody]

Request(method, path, cred, skip, limit, body) ==
    [method |-> method, path |-> path, cred |-> cred, skip |-> skip, limit |-> limit, body |-> body]

\* The handler a request is routed to ("" when no route matches).
HandlerOf(r) ==
    IF Dispatch(r.method, r.path) = 0 THEN "" ELSE Routes[Dispatch(r.method, r.path)].handler

\* What the request does not decide: the status HTTPBearer rejects with (st),
\* the scan order of table journals (order, read by the two handlers that
\* select without ORDER BY), and whether the database accepts the str handed
\* to deleted_at (accepted).
Env(st, order, accepted) == [st |-> st, order |-> order, accepted |-> accepted]
Envs(r) ==
    {Env(st, order, accepted) :
        st \in IF bearer_scheme(r.cred, 401).ok THEN {401} ELSE BearerRejectStatus,
        order \in IF HandlerOf(r) \in {"get_all_journals", "get_journals_by_tag"}
                  THEN Perms(DOMAIN journals) ELSE {<<>>},
        accepted \in IF HandlerOf(r) = "delete_journal" THEN BOOLEAN ELSE {TRUE}}

\* One request: routing, then the dependencies of the route (authentication
\* before the path parameters are read), then the handler.
Serve(r, env) ==
    /\ UNCHANGED <<app, sessions>>
    /\ req' = [method |-> r.method, path |-> r.path, body |-> r.body]
    /\ LET i == Dispatch(r.method, r.path) IN
       IF i = 0
       THEN /\ resp' = Resp("", 404, "Not Found", FALSE, 0, NoCred, NoArgs, <<>>)
            /\ UNCHANGED db
       ELSE
       LET h == Routes[i].handler
           auth == IF Routes[i].protected THEN Authenticate(r.cred, env.st) ELSE Accept(0)
           user == auth.user
           intParams == {k \in DOMAIN r.path :
                            Routes[i].path[k] \in {Param("journal_id"), Param("user_id")}}
       IN
       IF ~auth.ok
       THEN /\ resp' = Rejected(h, auth, r.cred)
            /\ UNCHANGED db
       ELSE IF \E k \in intParams : ~IsInt(r.path[k])
       THEN /\ resp' = Unprocessable(h, user)
            /\ UNCHANGED db
       ELSE
       CASE h = "create_journal"          -> create_journal(r.body, user)
         [] h = "get_all_journals"        -> get_all_journals(user, r.skip, r.limit, env.order)
         [] h = "get_journals_by_tag"     -> get_journals_by_tag(user, r.path[2], env.order)
         [] h = "get_user_journals"       -> get_user_journals(user, r.skip, r.limit)
         [] h = "get_journal_by_id"       -> get_journal_by_id(IntOf(r.path[1]))
         [] h = "get_journals_by_user"    -> get_journals_by_user(user, IntOf(r.path[2]), r.skip, r.limit)
         [] h = "get_my_journals"         -> get_my_journals(user, r.skip, r.limit)
         [] h = "update_journal"          -> update_journal(user, IntOf(r.path[1]), r.body)
         [] h = "delete_journal"          -> delete_journal(user, IntOf(r.path[1]), env.accepted)
         [] h = "create_journal_reaction" -> create_journal_reaction(r.body, user)
         [] h = "get_journal_reactions"   -> get_journal_reactions(IntOf(r.path[2]))
         [] h = "create_journal_favorite" -> create_journal_favorite(r.body, user)
         [] h = "get_journal_favorites"   -> get_journal_favorites(user)
         [] h = "create_journal_share"    -> create_journal_share(r.body, user)
         [] h = "create_journal_report"   -> create_journal_report(r.body, user)

(* ---------------------------- request pools --------------------------- *)
ValidCredentials ==
    { [scheme |-> "Bearer", credentials |-> "tok_1"],
      [scheme |-> "Bearer", credentials |-> "tok_2"] }

TagNames == {"a", "b"}
\* Tag lists without a repeated name.
ConcurrentTagLists == {<<"a">>, <<"a", "b">>, <<"b", "a">>}

TagLists == UNION {[1..n -> TagNames] : n \in 0..MaxTagList}

\* JournalCreate payloads.
CreateBody(is_private, tagList) ==
    [title |-> "t1", body_snippet |-> Some("s1"), html_content |-> None,
     is_private |-> is_private, image_url |-> None, tags |-> tagList]

\* JournalUpdate payloads: the fields the JSON body holds and their values.
UpdateBody(set, title, body_snippet, html_content, is_private, image_url) ==
    [set |-> set,
     val |-> [title |-> title, body_snippet |-> body_snippet, html_content |-> html_content,
              is_private |-> is_private, image_url |-> image_url]]
UpdateBodies ==
    { UpdateBody({}, None, None, None, None, None),
      UpdateBody({"title"}, Some("t2"), None, None, None, None),
      UpdateBody({"body_snippet"}, None, None, None, None, None),
      UpdateBody({"html_content", "image_url"}, None, None, Some("h2"), None, Some("u2")),
      UpdateBody({"is_private", "body_snippet"}, None, Some("s2"), None, Some(TRUE), None),
      UpdateBody({"title"}, None, None, None, None, None),
      UpdateBody({"is_private", "image_url"}, None, None, None, None, Some("u2")),
      UpdateBody(JournalUpdateFields, Some("t2"), Some("s2"), Some("h2"), Some(TRUE), Some("u2")) }

Skips == 0..MaxSkip
Limits == 1..MaxLimit
\* Path segments: journal ids (one more than the table can hold), user ids
\* (9 is no user) and tag names ("zz" is never created).
JournalSegments == {DecimalStrings[i] : i \in 1..(MaxJournals + 1)}
UserSegments == {"1", "2", "9"}
TagSegments == TagNames \cup {"zz"}

\* Engagement payloads; user_id is a field the schemas do not have.
EngagementBodies(journalIds, userIds) ==
    {[journal_id |-> j, user_id |-> u, reaction_type |-> "like",
      share_type |-> "internal", reason |-> "spam"] : j \in journalIds, u \in userIds}

\* The inputs a specification draws its requests from.
Pool(creds, createBodies, updateBodies, engagementBodies) ==
    [creds |-> creds, createBodies |-> createBodies, updateBodies |-> updateBodies,
     engagementBodies |-> engagementBodies]

(* --------------------- create_journal side by side --------------------- *)
\* Two requests at a time, each with a Session and a transaction of its own.
Workers == {1, 2}

\* A worker without a request.
NoSession ==
    [pc |-> "idle", user |-> 0, body |-> NoBody, names |-> <<>>, added |-> <<>>,
     inserted |-> <<>>, missed |-> {}, snapshot |-> 0, isolation |-> "",
     status |-> 0, detail |-> "", journal_id |-> 0]

NoSessions == [w \in Workers |-> NoSession]

\* What the transaction of a session may see of rows committed by others
\* after its first statement: all of them, or none.
Isolations == {"read committed", "snapshot"}

\* The names of the Tag rows a SELECT of session w sees: the committed rows
\* its isolation level shows, and the rows the session inserted itself.
VisibleTags(w) ==
    LET seen == IF sessions[w].isolation = "snapshot"
                THEN SubSeq(tags, 1, sessions[w].snapshot) ELSE tags
    IN SeqToSet(seen) \cup SeqToSet(sessions[w].inserted)

\* Tag.name without its unique index.
NoUniqueIndex(name) == FALSE

\* Field(index=True, unique=True): an INSERT of a name some committed row has.
UniqueViolated(name) == name \in SeqToSet(tags)

\* The INSERT meets a row of the same name that another transaction has
\* inserted and not yet committed.
LockedByOther(w, name) ==
    \E o \in Workers \ {w} : name \in SeqToSet(sessions[o].inserted)

\* The exception leaves the handler: the Session is closed, its transaction
\* rolled back, the request answered 500.
Rollback(w, detail) ==
    sessions' = [sessions EXCEPT ![w] =
        [@ EXCEPT !.pc = "done", !.status = 500, !.detail = detail,
                  !.added = <<>>, !.inserted = <<>>]]

\* The request reaches create_journal with an authenticated user.
Begin(w) ==
    /\ app.phase = "serving"
    /\ sessions[w].pc \in {"idle", "done"}
    /\ Len(journals) + Cardinality({o \in Workers : sessions[o].pc \in {"select", "commit"}})
          < MaxJournals
    /\ \E cred \in ValidCredentials, list \in ConcurrentTagLists, iso \in Isolations :
          sessions' = [sessions EXCEPT ![w] =
              [NoSession EXCEPT !.pc = "select",
                                !.user = Authenticate(cred, 401).user,
                                !.body = CreateBody(FALSE, list),
                                !.names = list,
                                !.snapshot = Len(tags),
                                !.isolation = iso]]
    /\ UNCHANGED <<db, req, resp, app>>

\* Autoflush before a SELECT, and the flush of commit(): INSERT of a Tag added
\* to the Session. The database lets it through, rejects it for the unique
\* index, or, where another transaction holds the name, makes it wait or
\* gives up on it (lock timeout, deadlock victim, database is locked).
InsertTag(w) ==
    /\ sessions[w].pc \in {"select", "commit"}
    /\ sessions[w].added # <<>>
    /\ LET name == Head(sessions[w].added) IN
       \/ /\ UniqueViolated(name)
          /\ Rollback(w, "IntegrityError")
       \/ /\ ~UniqueViolated(name)
          /\ LockedByOther(w, name)
          /\ Rollback(w, "OperationalError")
       \/ /\ ~UniqueViolated(name)
          /\ ~LockedByOther(w, name)
          /\ sessions' = [sessions EXCEPT ![w] =
                [@ EXCEPT !.added = Tail(@), !.inserted = Append(@, name)]]
    /\ UNCHANGED <<db, req, resp, app>>

\* tag = session.exec(select(Tag).where(Tag.name == tag_name)).first();
\* if not tag: tag = Tag(name=tag_name); session.add(tag)
SelectTag(w) ==
    /\ sessions[w].pc = "select"
    /\ sessions[w].added = <<>>
    /\ LET name == Head(sessions[w].names)
           rest == Tail(sessions[w].names)
           hit == name \in VisibleTags(w)
       IN sessions' = [sessions EXCEPT ![w] =
              [@ EXCEPT !.names = rest,
                        !.added = IF hit THEN @ ELSE Append(@, name),
                        !.missed = IF hit THEN @ ELSE @ \cup {name},
                        !.pc = IF rest = <<>> THEN "commit" ELSE "select"]]
    /\ UNCHANGED <<db, req, resp, app>>

\* The id of the Tag row of a name.
TagId(rows, name) == CHOOSE t \in DOMAIN rows : rows[t] = name

\* session.add(journal); session.commit(): the journal and its links are
\* inserted and the transaction becomes visible to the others.
CommitJournal(w) ==
    /\ sessions[w].pc = "commit"
    /\ sessions[w].added = <<>>
    /\ LET journal == NewJournal(sessions[w].body, sessions[w].user)
           rows == tags \o sessions[w].inserted
       IN /\ journals' = Append(journals, journal)
          /\ tags' = rows
          /\ links' = links \cup {<<journal.id, TagId(rows, n)>> :
                                     n \in SeqToSet(sessions[w].body.tags)}
          /\ clock' = clock + 1
          /\ sessions' = [sessions EXCEPT ![w] =
                [@ EXCEPT !.pc = "done", !.status = 200, !.inserted = <<>>,
                          !.journal_id = journal.id]]
    /\ UNCHANGED <<reactions, favorites, shares, reports, nupdates, req, resp, app>>

(* ------------------------------ lifespan ------------------------------ *)
\* The application before lifespan() is entered.
AppStarting ==
    [phase |-> "starting", sql_engine |-> "none", tables_created |-> FALSE,
     sql_session_factory |-> FALSE, exit |-> ""]

\* app.state.sql_engine = create_engine_from_env(): the engine, or the
\* exception of a connection string that is missing or malformed.
create_engine_from_env(a, ok) ==
    IF ok THEN [a EXCEPT !.phase = "engine", !.sql_engine = "live"]
    ELSE [a EXCEPT !.phase = "failed"]

\* SQLModel.metadata.create_all(app.state.sql_engine), or its exception.
create_all(a, ok) ==
    IF ok THEN [a EXCEPT !.phase = "schema", !.tables_created = TRUE]
    ELSE [a EXCEPT !.phase = "failed"]

\* app.state.sql_session_factory = ...; try: yield
EnterYield(a) == [a EXCEPT !.phase = "serving", !.sql_session_factory = TRUE]

\* The application while it serves: lifespan() is suspended at its yield.
AppServing == EnterYield(create_all(create_engine_from_env(AppStarting, TRUE), TRUE))

\* A lifespan() whose dispose_engine follows the yield without try/finally.
DisposeAfterYield(a) ==
    IF a.exit = "normal" THEN [a EXCEPT !.phase = "stopped", !.sql_engine = "disposed"]
    ELSE [a EXCEPT !.phase = "stopped"]

\* finally: dispose_engine(app.state.sql_engine)
dispose_engine(a) == [a EXCEPT !.phase = "stopped", !.sql_engine = "disposed"]

Quiet == UNCHANGED <<db, req, resp, sessions>>

CreateEngine ==
    /\ app.phase = "starting"
    /\ \E ok \in BOOLEAN : app' = create_engine_from_env(app, ok)
    /\ Quiet

CreateAll ==
    /\ app.phase = "engine"
    /\ \E ok \in BOOLEAN : app' = create_all(app, ok)
    /\ Quiet

Yield ==
    /\ app.phase = "schema"
    /\ app' = EnterYield(app)
    /\ Quiet

\* The hosting runtime ends the yield once no request is in flight, by
\* resuming lifespan() (normal) or by raising into it (error).
Shutdown ==
    /\ app.phase = "serving"
    /\ resp = NoResp
    /\ \E kind \in {"normal", "error"} : app' = [app EXCEPT !.phase = "exiting", !.exit = kind]
    /\ Quiet

Finally ==
    /\ app.phase = "exiting"
    /\ app' = dispose_engine(app)
    /\ Quiet

(* ------------------------------ actions ------------------------------- *)
(* ------------------------------ actions ------------------------------- *)
\* The server takes the next request when the answer to the last one has left.
Idle == app.phase = "serving" /\ resp = NoResp

\* The rows of the four engagement tables together.
EngagementRows == Len(reactions) + Len(favorites) + Len(shares) + Len(reports)

PostCreate(P) ==
    /\ Idle
    /\ Len(journals) < MaxJournals
    /\ \E cred \in P.creds, body \in P.createBodies :
          LET r == Request("POST", <<"create">>, cred, 0, 0, body) IN
          \E env \in Envs(r) : Serve(r, env)

GetAll(P) ==
    /\ Idle
    /\ \E cred \in P.creds, skip \in Skips, limit \in Limits :
          LET r == Request("GET", <<"get-all">>, cred, skip, limit, NoBody) IN
          \E env \in Envs(r) : Serve(r, env)

GetByTag(P) ==
    /\ Idle
    /\ \E cred \in P.creds, name \in TagSegments :
          LET r == Request("GET", <<"tags", name>>, cred, 0, 0, NoBody) IN
          \E env \in Envs(r) : Serve(r, env)

GetUserJournals(P) ==
    /\ Idle
    /\ \E cred \in P.creds, skip \in Skips, limit \in Limits :
          LET r == Request("GET", <<"get-user-journals">>, cred, skip, limit, NoBody) IN
          \E env \in Envs(r) : Serve(r, env)

GetById(P) ==
    /\ Idle
    /\ \E cred \in P.creds, seg \in JournalSegments :
          LET r == Request("GET", <<seg>>, cred, 0, 0, NoBody) IN
          \E env \in Envs(r) : Serve(r, env)

GetByUser(P) ==
    /\ Idle
    /\ \E cred \in P.creds, seg \in UserSegments, skip \in Skips, limit \in Limits :
          LET r == Request("GET", <<"user", seg>>, cred, skip, limit, NoBody) IN
          \E env \in Envs(r) : Serve(r, env)

GetMy(P) ==
    /\ Idle
    /\ \E cred \in P.creds, skip \in Skips, limit \in Limits :
          LET r == Request("GET", <<"my">>, cred, skip, limit, NoBody) IN
          \E env \in Envs(r) : Serve(r, env)

PutJournal(P) ==
    /\ Idle
    /\ nupdates < MaxUpdates
    /\ \E cred \in P.creds, seg \in JournalSegments, body \in P.updateBodies :
          LET r == Request("PUT", <<seg>>, cred, 0, 0, body) IN
          \E env \in Envs(r) : Serve(r, env)

DeleteJournal(P) ==
    /\ Idle
    /\ \E cred \in P.creds, seg \in JournalSegments :
          LET r == Request("DELETE", <<seg>>, cred, 0, 0, NoBody) IN
          \E env \in Envs(r) : Serve(r, env)

PostReaction(P) ==
    /\ Idle
    /\ EngagementRows < MaxEngagement
    /\ \E cred \in P.creds, body \in P.engagementBodies :
          LET r == Request("POST", <<"journal-reactions">>, cred, 0, 0, body) IN
          \E env \in Envs(r) : Serve(r, env)

GetReactions(P) ==
    /\ Idle
    /\ \E cred \in P.creds, seg \in JournalSegments :
          LET r == Request("GET", <<"journal-reactions", seg>>, cred, 0, 0, NoBody) IN
          \E env \in Envs(r) : Serve(r, env)

PostFavorite(P) ==
    /\ Idle
    /\ EngagementRows < MaxEngagement
    /\ \E cred \in P.creds, body \in P.engagementBodies :
          LET r == Request("POST", <<"journal-favorites">>, cred, 0, 0, body) IN
          \E env \in Envs(r) : Serve(r, env)

GetFavorites(P) ==
    /\ Idle
    /\ \E cred \in P.creds :
          LET r == Request("GET", <<"journal-favorites">>, cred, 0, 0, NoBody) IN
          \E env \in Envs(r) : Serve(r, env)

PostShare(P) ==
    /\ Idle
    /\ EngagementRows < MaxEngagement
    /\ \E cred \in P.creds, body \in P.engagementBodies :
          LET r == Request("POST", <<"journal-shares">>, cred, 0, 0, body) IN
          \E env \in Envs(r) : Serve(r, env)

PostReport(P) ==
    /\ Idle
    /\ EngagementRows < MaxEngagement
    /\ \E cred \in P.creds, body \in P.engagementBodies :
          LET r == Request("POST", <<"journal-reports">>, cred, 0, 0, body) IN
          \E env \in Envs(r) : Serve(r, env)

\* The answer leaves the server and the session of the request is closed.
Respond ==
    /\ resp # NoResp
    /\ resp' = NoResp
    /\ req' = NoReq
    /\ UNCHANGED <<db, app, sessions>>

(* --------------------------- specifications --------------------------- *)
Init ==
    /\ journals = <<>>
    /\ tags = <<>>
    /\ links = {}
    /\ reactions = <<>>
    /\ favorites = <<>>
    /\ shares = <<>>
    /\ reports = <<>>
    /\ clock = 1
    /\ nupdates = 0
    /\ req = NoReq
    /\ resp = NoResp
    /\ app = AppServing
    /\ sessions = NoSessions

\* Spec: authenticated callers create, read, update and delete journals.
JournalPool ==
    Pool(ValidCredentials, {CreateBody(FALSE, <<>>)}, UpdateBodies, {})

Next ==
    \/ PostCreate(JournalPool)
    \/ GetAll(JournalPool)
    \/ GetUserJournals(JournalPool)
    \/ GetById(JournalPool)
    \/ GetByUser(JournalPool)
    \/ GetMy(JournalPool)
    \/ PutJournal(JournalPool)
    \/ DeleteJournal(JournalPool)
    \/ Respond

Spec == Init /\ [][Next]_vars

\* SpecTags: authenticated callers create tagged journals, delete them and
\* list them by tag.
TagPool ==
    Pool(ValidCredentials, {CreateBody(p, t) : p \in BOOLEAN, t \in TagLists}, {}, {})

NextTags ==
    \/ PostCreate(TagPool)
    \/ GetByTag(TagPool)
    \/ GetById(TagPool)
    \/ DeleteJournal(TagPool)
    \/ Respond

SpecTags == Init /\ [][NextTags]_vars

\* SpecEngage: authenticated callers create journals and react to, favorite,
\* share and report them.
EngagePool ==
    Pool(ValidCredentials, {CreateBody(FALSE, <<"a">>)}, {},
         EngagementBodies(1..MaxJournals, Users))

NextEngage ==
    \/ PostCreate(EngagePool)
    \/ PostReaction(EngagePool)
    \/ GetReactions(EngagePool)
    \/ PostFavorite(EngagePool)
    \/ GetFavorites(EngagePool)
    \/ PostShare(EngagePool)
    \/ PostReport(EngagePool)
    \/ GetAll(EngagePool)
    \/ GetByTag(EngagePool)
    \/ Respond

SpecEngage == Init /\ [][NextEngage]_vars

\* SpecAll: every request of the path surface, with every kind of credentials.
AllPool ==
    Pool(Credentials \ {[scheme |-> "Bearer", credentials |-> "tok_2"]},
         {CreateBody(TRUE, <<"a">>)},
         {UpdateBody({"title"}, Some("t2"), None, None, None, None)},
         EngagementBodies({1}, {2}))

NextAll ==
    \/ PostCreate(AllPool)
    \/ GetAll(AllPool)
    \/ GetByTag(AllPool)
    \/ GetUserJournals(AllPool)
    \/ GetById(AllPool)
    \/ GetByUser(AllPool)
    \/ GetMy(AllPool)
    \/ PutJournal(AllPool)
    \/ DeleteJournal(AllPool)
    \/ PostReaction(AllPool)
    \/ GetReactions(AllPool)
    \/ PostFavorite(AllPool)
    \/ GetFavorites(AllPool)
    \/ PostShare(AllPool)
    \/ PostReport(AllPool)
    \/ Respond

SpecAll == Init /\ [][NextAll]_vars

\* The four engagement creates on one journal, by both users.
ActorPool ==
    Pool(ValidCredentials, {CreateBody(FALSE, <<>>)}, {}, EngagementBodies({1}, Users))

NextActor ==
    \/ PostCreate(ActorPool)
    \/ PostReaction(ActorPool)
    \/ PostFavorite(ActorPool)
    \/ PostShare(ActorPool)
    \/ PostReport(ActorPool)
    \/ Respond

SpecActor == Init /\ [][NextActor]_vars

\* Journals carrying tag "a", favorites on them by both users, and the feeds.
FeedPool ==
    Pool(ValidCredentials, {CreateBody(FALSE, <<"a">>)}, {}, EngagementBodies({1, 2}, {1}))

NextFeed ==
    \/ PostCreate(FeedPool)
    \/ PostFavorite(FeedPool)
    \/ GetAll(FeedPool)
    \/ GetByTag(FeedPool)
    \/ GetUserJournals(FeedPool)
    \/ GetByUser(FeedPool)
    \/ Respond

SpecFeed == Init /\ [][NextFeed]_vars

\* Favorites and shares of journal 1 by both users, and the feeds assembled
\* with the batched queries.
AggregatePool ==
    Pool(ValidCredentials, {CreateBody(FALSE, <<>>)}, {}, EngagementBodies({1}, {1}))

NextAggregate ==
    \/ PostCreate(AggregatePool)
    \/ PostFavorite(AggregatePool)
    \/ PostShare(AggregatePool)
    \/ GetAll(AggregatePool)
    \/ GetUserJournals(AggregatePool)
    \/ GetByUser(AggregatePool)
    \/ Respond

SpecAggregate == Init /\ [][NextAggregate]_vars

\* The tags table may hold rows before the first request: the database
\* outlives the process, and a Tag row needs no journal.
SeededTags == {<<>>, <<"b">>}

InitSeeded ==
    /\ journals = <<>>
    /\ tags \in SeededTags
    /\ links = {}
    /\ reactions = <<>>
    /\ favorites = <<>>
    /\ shares = <<>>
    /\ reports = <<>>
    /\ clock = 1
    /\ nupdates = 0
    /\ req = NoReq
    /\ resp = NoResp
    /\ app = AppServing
    /\ sessions = NoSessions

SeededPool == Pool(ValidCredentials, {CreateBody(FALSE, <<"a">>)}, {}, {})

NextSeeded ==
    \/ PostCreate(SeededPool)
    \/ GetByTag(SeededPool)
    \/ DeleteJournal(SeededPool)
    \/ Respond

SpecSeeded == InitSeeded /\ [][NextSeeded]_vars

\* The application from process start to exit, serving journal requests in
\* between.
InitLifespan ==
    /\ journals = <<>>
    /\ tags = <<>>
    /\ links = {}
    /\ reactions = <<>>
    /\ favorites = <<>>
    /\ shares = <<>>
    /\ reports = <<>>
    /\ clock = 1
    /\ nupdates = 0
    /\ req = NoReq
    /\ resp = NoResp
    /\ app = AppStarting
    /\ sessions = NoSessions

LifespanPool == Pool(ValidCredentials, {CreateBody(FALSE, <<>>)}, {}, {})

NextLifespan ==
    \/ CreateEngine
    \/ CreateAll
    \/ Yield
    \/ PostCreate(LifespanPool)
    \/ GetById(LifespanPool)
    \/ DeleteJournal(LifespanPool)
    \/ Respond
    \/ Shutdown
    \/ Finally

\* The finally block runs once the yield has been left.
SpecLifespan == InitLifespan /\ [][NextLifespan]_vars /\ WF_vars(Finally)

NextConcurrent ==
    \/ \E w \in Workers : Begin(w)
    \/ \E w \in Workers : SelectTag(w)
    \/ \E w \in Workers : InsertTag(w)
    \/ \E w \in Workers : CommitJournal(w)

SpecConcurrent == Init /\ [][NextConcurrent]_vars

(* ------------------------------- claims ------------------------------- *)
\* The request being answered asks for one of the four paged feeds.
IsFeedRequest ==
    /\ req.method = "GET"
    /\ \/ req.path \in {<<"get-all">>, <<"get-user-journals">>, <<"my">>}
       \/ Len(req.path) = 2 /\ req.path[1] = "user"

\* The request being answered is GET /journals/<id> for the id of a row.
IsGetOfRow ==
    /\ req.method = "GET"
    /\ Len(req.path) = 1
    /\ IsInt(req.path[1])
    /\ IntOf(req.path[1]) \in DOMAIN journals

\* C1: a journal with is_deleted = true is in no answer to get-all,
\* get-user-journals, my or user/{id}, whoever asks and whatever skip and
\* limit are, and GET by its id is answered 404 without data.
C1_DeletedNeverListed ==
    /\ IsFeedRequest =>
          \A k \in DOMAIN resp.data : ~journals[resp.data[k].id].is_deleted
    /\ (IsGetOfRow /\ journals[IntOf(req.path[1])].is_deleted) =>
          (resp.status = 404 /\ resp.data = <<>>)

\* A feed was answered with a journal while another journal is deleted.
C1_Witness ==
    /\ req.path = <<"get-all">>
    /\ resp.status = 200
    /\ Len(resp.data) >= 1
    /\ \E i \in DOMAIN journals : journals[i].is_deleted

\* The step answers an update or delete of an existing journal asked for by
\* somebody else than its owner.
ByNonOwner ==
    /\ resp'.handler \in {"update_journal", "delete_journal"}
    /\ resp'.ran
    /\ resp'.args.journal_id \in DOMAIN journals
    /\ journals[resp'.args.journal_id].user_id # resp'.caller

\* C2: an update or delete asked for by a caller who is not the owner is
\* answered 404 "Journal not found", as for a missing id, and changes no row
\* of the table; a row changes only in a step that answers an update or delete
\* of that row asked for by its owner.
C2_OnlyOwnerMutates ==
    [][ /\ ByNonOwner =>
              /\ resp'.status = 404
              /\ resp'.detail = "Journal not found"
              /\ journals' = journals
        /\ \A i \in DOMAIN journals :
              journals'[i] # journals[i] =>
                  /\ resp'.handler \in {"update_journal", "delete_journal"}
                  /\ resp'.args.journal_id = i
                  /\ resp'.caller = journals[i].user_id ]_vars

\* A delete of a live journal asked for by another user was answered 404.
C2_Witness ==
    /\ resp.handler = "delete_journal"
    /\ resp.status = 404
    /\ resp.args.journal_id \in DOMAIN journals
    /\ journals[resp.args.journal_id].user_id # resp.caller
    /\ resp.caller \in Users
    /\ ~journals[resp.args.journal_id].is_deleted

\* C3: a request to a protected endpoint that carries no Authorization
\* header, a non-bearer scheme, an undecodable token, a token without sub, a
\* token with a non-numeric sub or a token of an unknown user is answered 401
\* and the handler body is not run.
C3_BadCredentials401 ==
    resp.cred # NoCred => (resp.status = 401 /\ ~resp.ran)

\* C4: every operation of the router other than get-by-id runs its handler
\* only for a caller authenticated by a valid bearer credential.
C4_AllButGetByIdProtected ==
    (resp.ran /\ resp.handler # "get_journal_by_id") => resp.caller \in Users

\* C5: the answer to list-journals-by-tag for a known tag holds no journal
\* with is_deleted = true, whatever creates and deletes came before.
C5_TagListingHidesDeleted ==
    (resp.handler = "get_journals_by_tag" /\ resp.status = 200) =>
        \A k \in DOMAIN resp.data : ~journals[resp.data[k].id].is_deleted

\* The value a row stores in field f, as the Optional the payload carries.
Stored(row, f) ==
    IF f \in {"title", "is_private"} THEN Some(row[f]) ELSE row[f]

\* The step answers an update asked for by the owner of the journal.
ByOwnerUpdate ==
    /\ resp'.handler = "update_journal"
    /\ resp'.ran
    /\ resp'.args.journal_id \in DOMAIN journals
    /\ journals[resp'.args.journal_id].user_id = resp'.caller

\* C6: update_journal by the owner overwrites every field present in the
\* payload with the supplied value and leaves every other field of the row,
\* among them id, user_id, is_deleted, deleted_at and created_at, as it was.
C6_UpdateOverwritesPayloadFields ==
    [][ ByOwnerUpdate =>
          LET i == resp'.args.journal_id IN
          /\ \A f \in JournalUpdateFields :
                Stored(journals'[i], f) =
                    IF f \in req'.body.set THEN req'.body.val[f]
                    ELSE Stored(journals[i], f)
          /\ \A f \in {"id", "user_id", "is_deleted", "deleted_at", "created_at"} :
                journals'[i][f] = journals[i][f] ]_vars

\* The step answers a create of a reaction, favorite, share or report.
ByEngagementCreate ==
    resp'.handler \in {"create_journal_reaction", "create_journal_favorite",
                       "create_journal_share", "create_journal_report"}

\* Table t got exactly one row more, at its end, whose field actor is a.
AppendedBy(old, new, actor, a) ==
    /\ Len(new) = Len(old) + 1
    /\ SubSeq(new, 1, Len(old)) = old
    /\ new[Len(new)][actor] = a

\* C7: a row enters the reactions, favorites, shares or reports table only in
\* a step that answers the create request of an authenticated caller, and the
\* row's actor field (user_id, reporter_id for reports) is that caller's id,
\* whatever the request body holds; rows already stored stay as they are.
C7_ActorIsCaller ==
    [][ /\ reactions' # reactions =>
              /\ resp'.handler = "create_journal_reaction" /\ resp'.caller \in Users
              /\ AppendedBy(reactions, reactions', "user_id", resp'.caller)
        /\ favorites' # favorites =>
              /\ resp'.handler = "create_journal_favorite" /\ resp'.caller \in Users
              /\ AppendedBy(favorites, favorites', "user_id", resp'.caller)
        /\ shares' # shares =>
              /\ resp'.handler = "create_journal_share" /\ resp'.caller \in Users
              /\ AppendedBy(shares, shares', "user_id", resp'.caller)
        /\ reports' # reports =>
              /\ resp'.handler = "create_journal_report" /\ resp'.caller \in Users
              /\ AppendedBy(reports, reports', "reporter_id", resp'.caller) ]_vars

\* A reaction was stored for a request whose body named another user.
C7_Witness ==
    /\ resp.handler = "create_journal_reaction"
    /\ resp.ran
    /\ req.body.user_id # resp.caller
    /\ Len(reactions) > 0
    /\ reactions[Len(reactions)].user_id = resp.caller

\* C8: create_journal with a list of tag names succeeds and leaves exactly
\* one Tag row for each distinct name of the list, linked to the new journal,
\* also when the list names a tag twice.
C8_OneTagPerDistinctName ==
    (resp.handler = "create_journal" /\ resp.ran) =>
        /\ resp.status = 200
        /\ \A n \in SeqToSet(req.body.tags) :
              /\ Cardinality({t \in DOMAIN tags : tags[t] = n}) = 1
              /\ \E t \in DOMAIN tags :
                    tags[t] = n /\ <<resp.data[1].id, t>> \in links

\* C9: a journal whose delete was committed has is_deleted = true and a
\* deleted_at that is a timestamp, neither null nor a placeholder text.
C9_DeletedAtIsTimestamp ==
    \A i \in DOMAIN journals :
        journals[i].is_deleted => journals[i].deleted_at.kind = "datetime"

\* C10: the answer of get-all(skip, limit) lists positions [skip, skip+limit)
\* of all non-deleted journals in descending order of created_at.
C10_GetAllNewestFirst ==
    (resp.handler = "get_all_journals" /\ resp.status = 200) =>
        [k \in DOMAIN resp.data |-> resp.data[k].id] =
            Page(OrderByCreatedDesc(LiveIds), resp.args.skip, resp.args.limit)

\* C11: GET /journals/my is answered by get_my_journals and GET
\* /journals/journal-favorites by get_journal_favorites; neither is captured
\* by the route GET /journals/{journal_id}.
C11_DispatchedAsNamed ==
    (req.method = "GET" /\ resp # NoResp) =>
        /\ req.path = <<"my">> => resp.handler = "get_my_journals"
        /\ req.path = <<"journal-favorites">> => resp.handler = "get_journal_favorites"

\* The answer is a feed: a list of JournalFeedResponse items.
IsFeedAnswer ==
    /\ resp.status = 200
    /\ resp.handler \in {"get_all_journals", "get_user_journals",
                         "get_journals_by_user", "get_my_journals",
                         "get_journals_by_tag"}

\* User u has a favorite row for journal j.
HasFavorite(u, j) ==
    \E n \in DOMAIN favorites :
        favorites[n].journal_id = j /\ favorites[n].user_id = u

\* C12: in every feed, an item's is_favorite is true exactly when the caller
\* has at least one favorite row for that journal; favorites of other users
\* do not count.
C12_IsFavoriteIsCallers ==
    IsFeedAnswer =>
        \A k \in DOMAIN resp.data :
            resp.data[k].is_favorite = HasFavorite(resp.caller, resp.data[k].id)

\* A feed holds X, favorited by the caller, with is_favorite true, and Y,
\* favorited by another user only, with is_favorite false.
C12_Witness ==
    /\ IsFeedAnswer
    /\ \E x, y \in DOMAIN resp.data :
          /\ resp.data[x].is_favorite
          /\ ~resp.data[y].is_favorite
          /\ \E u \in Users \ {resp.caller} : HasFavorite(u, resp.data[y].id)

\* The answer is a feed assembled with the batched queries.
IsBatchedAnswer ==
    /\ IsFeedAnswer
    /\ resp.handler # "get_journals_by_tag"

\* C13: the share_count and is_favorite of every item of a feed assembled
\* with the batched queries equal what the per-journal queries of the tag
\* listing compute for the same journals and caller on the same tables.
C13_BatchedEqualsPerJournal ==
    IsBatchedAnswer =>
        resp.data = PerJournalFeed([k \in DOMAIN resp.data |-> resp.data[k].id], resp.caller)

\* A batched feed lists a journal with two shares by the same user next to a
\* journal without shares.
C13_Witness ==
    /\ IsBatchedAnswer
    /\ \E x, y \in DOMAIN resp.data :
          /\ resp.data[x].share_count = 2
          /\ resp.data[y].share_count = 0
    /\ \E m, n \in DOMAIN shares :
          m # n /\ shares[m].journal_id = shares[n].journal_id
                /\ shares[m].user_id = shares[n].user_id

\* The tag listing was run for a name that has a Tag row.
TagKnown == \E t \in DOMAIN tags : tags[t] = resp.args.tag_name

\* Some journal is linked to a Tag row of the name listed.
TagLinked == \E l \in links : tags[l[2]] = resp.args.tag_name

\* C14: the tag listing answers 404 "Tag not found" for a name without a Tag
\* row, and 200 with an empty list for a name whose Tag row has no journal.
C14_UnknownTag404EmptyTag200 ==
    (resp.handler = "get_journals_by_tag" /\ resp.ran) =>
        /\ ~TagKnown => (resp.status = 404 /\ resp.detail = "Tag not found")
        /\ (TagKnown /\ ~TagLinked) => (resp.status = 200 /\ resp.data = <<>>)

\* The listing of a tag that has a row but no journal was answered 200, while
\* another tag has journals.
C14_Witness ==
    /\ resp.handler = "get_journals_by_tag"
    /\ resp.ran
    /\ TagKnown
    /\ ~TagLinked
    /\ resp.status = 200
    /\ links # {}

\* C15: GET /journals/<id> of an existing journal that is not deleted is
\* answered 200 with the journal's row, for every requester and whatever
\* is_private is.
C15_GetByIdReturnsJournal ==
    (IsGetOfRow /\ resp # NoResp /\ ~journals[IntOf(req.path[1])].is_deleted) =>
        /\ resp.status = 200
        /\ resp.data = <<JournalResponse(journals[IntOf(req.path[1])])>>

\* C16: a request is answered only while lifespan() is suspended at its
\* yield, with the engine constructed and the schema pass completed; after a
\* failed startup step nothing happens any more, so no request is served;
\* and once the yield is left, normally or with an error, the engine gets
\* disposed and the application is stopped only with its engine disposed.
C16_LifecycleOrdering ==
    /\ [][ /\ (resp' # NoResp /\ resp' # resp) =>
                 /\ app.phase = "serving"
                 /\ app.sql_engine = "live"
                 /\ app.tables_created
           /\ app.phase # "failed"
           /\ app'.phase = "stopped" => app'.sql_engine = "disposed" ]_vars
    /\ (app.phase = "exiting") ~> (app.sql_engine = "disposed")

\* The application served a create, was shut down with an error and stopped
\* with its engine disposed.
C16_Witness ==
    /\ Len(journals) > 0
    /\ app.phase = "stopped"
    /\ app.exit = "error"
    /\ app.sql_engine = "disposed"

\* No row of journals goes from is_deleted = true back to false.
StaysDeleted ==
    \A i \in DOMAIN journals : journals[i].is_deleted => journals'[i].is_deleted

\* The step answers the owner's update or delete of a deleted journal.
ByOwnerOnDeleted ==
    /\ resp'.handler \in {"update_journal", "delete_journal"}
    /\ resp'.ran
    /\ resp'.args.journal_id \in DOMAIN journals
    /\ journals[resp'.args.journal_id].user_id = resp'.caller
    /\ journals[resp'.args.journal_id].is_deleted

\* C17: no step of the journal router sets is_deleted back to false, and the
\* owner's update of, or repeated delete on, a journal already deleted
\* succeeds and leaves is_deleted = true.
C17_SoftDeleteIrreversible ==
    [][ /\ StaysDeleted
        /\ ByOwnerOnDeleted => resp'.status = 200 ]_vars

\* The irreversibility alone.
DeletedForGood == [][StaysDeleted]_vars

\* C18: whatever the interleaving of create_journal requests that look a
\* tag name up and insert it when missing, no two Tag rows hold the same
\* name; a request whose insert meets the unique index fails as a whole and
\* leaves no journal, and a request answered 200 has its journal linked to a
\* Tag row of every name it listed.
C18_TagNamesStayUnique ==
    /\ \A i, k \in DOMAIN tags : tags[i] = tags[k] => i = k
    /\ \A w \in Workers :
          sessions[w].pc = "done" =>
              /\ sessions[w].status = 500 => sessions[w].journal_id = 0
              /\ sessions[w].status = 200 =>
                    /\ sessions[w].journal_id \in DOMAIN journals
                    /\ \A n \in SeqToSet(sessions[w].body.tags) :
                          \E t \in DOMAIN tags :
                              tags[t] = n /\ <<sessions[w].journal_id, t>> \in links

\* Two requests both looked tag "a" up and found none; one committed, the
\* other was stopped by the unique index, and one journal exists.
C18_Witness ==
    \E w, o \in Workers :
        /\ w # o
        /\ sessions[w].pc = "done" /\ sessions[w].status = 200
        /\ sessions[o].pc = "done" /\ sessions[o].status = 500
        /\ sessions[o].detail = "IntegrityError"
        /\ "a" \in sessions[w].missed \cap sessions[o].missed
        /\ Len(journals) = 1
        /\ Cardinality({t \in DOMAIN tags : tags[t] = "a"}) = 1

====
